---- MODULE Spec2Model ----
(***************************************************************************)
(* gitact: the Bubble Tea dashboard (Model, Update and its helpers), the   *)
(* commands it starts (loadReposCmd, loadEventsCmd, clone/copy/open, the   *)
(* notification tick) and the pure statistics functions.                    *)
(*                                                                         *)
(* The Model struct is one record-valued variable m: Bubble Tea hands the  *)
(* model to Update by value and keeps the value Update returns, so every   *)
(* handler is a function from the old record to the new one.  Commands     *)
(* returned by a handler run outside the event loop and deliver one        *)
(* message each; they are the "pending" variables.                         *)
(***************************************************************************)
EXTENDS Integers, Sequences, FiniteSets, TLC

VARIABLES
    m,              \* the Model value held by the Bubble Tea runtime
    pendingRepos,   \* loadReposCmd commands started and not yet delivered (by load request)
    pendingEvents,  \* loadEventsCmd commands started and not yet delivered (by load request)
    pendingActions, \* clone/copy/open commands started and not yet delivered
    pendingTicks,   \* tea.Tick timers armed and not yet fired: the time left of each
    loads,          \* number of load requests issued after Init (refresh key presses)
    quitting,       \* tea.Quit was returned: the runtime stops handling messages
    pc,             \* position of the function driver ("dashboard" while the dashboard runs)
    arg,            \* argument of the function under the driver
    ret             \* its result

vars == <<m, pendingRepos, pendingEvents, pendingActions, pendingTicks, loads, quitting, pc, arg, ret>>

----------------------------------------------------------------------------
(* Bounds *)

\* refresh key presses handled in one run
MaxRefresh == 1
\* clone/copy/open commands in flight at once
MaxActions == 1
\* notification timers armed at once
MaxTicks == 2
\* length of the event lists given to the statistics functions
MaxEvents == 3
\* pull-request events in the stats given to getGrade (34 of them score 102)
MaxPullRequests == 34
\* events of each other kind in the stats given to getGrade
MaxOfKind == 3
\* length of the event lists given to getTopRepos
MaxTopEvents == 4
\* command-line arguments after the program name
MaxArgs == 2

----------------------------------------------------------------------------
(* Data *)

\* the nil error
Nil == "nil"

\* the nine event kinds calculateStats counts, and one it does not know
EventTypes ==
    {"PushEvent", "IssuesEvent", "WatchEvent", "ForkEvent", "CreateEvent",
     "DeleteEvent", "PullRequestEvent", "ReleaseEvent", "PublicEvent", "GollumEvent"}

GitHubEvent(type, repo, createdAt) ==
    [Type |-> type, Repo |-> [Name |-> repo], CreatedAt |-> createdAt]

PublicRepo(name, desc, stars, forks, lang, updated) ==
    [Name |-> name, Description |-> desc, Stars |-> stars, Forks |-> forks,
     Language |-> lang, UpdatedAt |-> updated, Private |-> FALSE]

\* strings that are searched are sequences of characters
RepoA == PublicRepo(<<"a", "B">>, <<>>, 1200, 3, "Go", 2)
RepoB == PublicRepo(<<"x">>, <<"a", "b">>, 7, 0, "", 1)

EvPush == GitHubEvent("PushEvent", "u/a", 2)
EvIssue == GitHubEvent("IssuesEvent", "u/x", 1)
EvOther == GitHubEvent("GollumEvent", "u/a", 3)

\* a repository the API reports as private
RepoP == [PublicRepo(<<"p">>, <<"a">>, 9, 1, "Go", 3) EXCEPT !.Private = TRUE]

\* what fetchGitHubActivity can return on success
EventPayloads == {<<EvPush>>, <<EvIssue, EvOther>>}

\* error descriptions of the fetch layer
FetchErrors == {"http error 500"}

\* responses of the repositories endpoint to one page request: a decoded page, or
\* the error fetchPublicRepos makes of a failed request
pageOk(repos) == [repos |-> repos, err |-> Nil]
pageFailed(err) == [repos |-> <<>>, err |-> err]

\* what the API can answer to the successive page requests of one fetch
ApiAnswers ==
    {<<pageOk(<<RepoB, RepoP>>)>>, <<pageOk(<<RepoP, RepoA, RepoP, RepoB>>)>>}
    \cup {<<pageFailed(e)>> : e \in FetchErrors}

\* the sequences over S of length at most n
SeqUpTo(S, n) == UNION {[1..k -> S] : k \in 0..n}

----------------------------------------------------------------------------
(* Statistics (style.go, utils.go) *)

ZeroStats ==
    [PushEvents |-> 0, IssueEvents |-> 0, WatchEvents |-> 0, ForkEvents |-> 0,
     CreateEvents |-> 0, DeleteEvents |-> 0, PullRequestEvents |-> 0,
     ReleaseEvents |-> 0, PublicEvents |-> 0, OtherEvents |-> 0, TotalEvents |-> 0]

\* mutant: the total is counted only for push events
countEvent_totalInCase(stats, event) ==
    CASE event.Type = "PushEvent" ->
             [stats EXCEPT !.TotalEvents = @ + 1, !.PushEvents = @ + 1]
      [] event.Type = "IssuesEvent" -> [stats EXCEPT !.IssueEvents = @ + 1]
      [] event.Type = "WatchEvent" -> [stats EXCEPT !.WatchEvents = @ + 1]
      [] event.Type = "ForkEvent" -> [stats EXCEPT !.ForkEvents = @ + 1]
      [] event.Type = "CreateEvent" -> [stats EXCEPT !.CreateEvents = @ + 1]
      [] event.Type = "DeleteEvent" -> [stats EXCEPT !.DeleteEvents = @ + 1]
      [] event.Type = "PullRequestEvent" -> [stats EXCEPT !.PullRequestEvents = @ + 1]
      [] event.Type = "ReleaseEvent" -> [stats EXCEPT !.ReleaseEvents = @ + 1]
      [] event.Type = "PublicEvent" -> [stats EXCEPT !.PublicEvents = @ + 1]
      [] OTHER -> [stats EXCEPT !.OtherEvents = @ + 1]

\* mutant: the default branch counts nothing
countEvent_noOther(stats, event) ==
    LET s == [stats EXCEPT !.TotalEvents = @ + 1]
    IN  CASE event.Type = "PushEvent" -> [s EXCEPT !.PushEvents = @ + 1]
          [] event.Type = "IssuesEvent" -> [s EXCEPT !.IssueEvents = @ + 1]
          [] event.Type = "WatchEvent" -> [s EXCEPT !.WatchEvents = @ + 1]
          [] event.Type = "ForkEvent" -> [s EXCEPT !.ForkEvents = @ + 1]
          [] event.Type = "CreateEvent" -> [s EXCEPT !.CreateEvents = @ + 1]
          [] event.Type = "DeleteEvent" -> [s EXCEPT !.DeleteEvents = @ + 1]
          [] event.Type = "PullRequestEvent" -> [s EXCEPT !.PullRequestEvents = @ + 1]
          [] event.Type = "ReleaseEvent" -> [s EXCEPT !.ReleaseEvents = @ + 1]
          [] event.Type = "PublicEvent" -> [s EXCEPT !.PublicEvents = @ + 1]
          [] OTHER -> s

\* one iteration of the loop of calculateStats: TotalEvents++, then the switch
countEvent(stats, event) ==
    LET s == [stats EXCEPT !.TotalEvents = @ + 1]
    IN  CASE event.Type = "PushEvent" -> [s EXCEPT !.PushEvents = @ + 1]
          [] event.Type = "IssuesEvent" -> [s EXCEPT !.IssueEvents = @ + 1]
          [] event.Type = "WatchEvent" -> [s EXCEPT !.WatchEvents = @ + 1]
          [] event.Type = "ForkEvent" -> [s EXCEPT !.ForkEvents = @ + 1]
          [] event.Type = "CreateEvent" -> [s EXCEPT !.CreateEvents = @ + 1]
          [] event.Type = "DeleteEvent" -> [s EXCEPT !.DeleteEvents = @ + 1]
          [] event.Type = "PullRequestEvent" -> [s EXCEPT !.PullRequestEvents = @ + 1]
          [] event.Type = "ReleaseEvent" -> [s EXCEPT !.ReleaseEvents = @ + 1]
          [] event.Type = "PublicEvent" -> [s EXCEPT !.PublicEvents = @ + 1]
          [] OTHER -> [s EXCEPT !.OtherEvents = @ + 1]

RECURSIVE calculateStatsFrom(_, _, _)
\* the loop of calculateStats from index i on, stats being the counters so far
calculateStatsFrom(events, i, stats) ==
    IF i > Len(events)
    THEN stats
    ELSE calculateStatsFrom(events, i + 1, countEvent(stats, events[i]))

calculateStats(events) == calculateStatsFrom(events, 1, ZeroStats)

\* mutant: the bands are entered above their thresholds, not at them
getGrade_strict(stats) ==
    LET score2 == 2 * stats.PushEvents + 6 * stats.PullRequestEvents
                  + 2 * stats.CreateEvents + 3 * stats.IssueEvents + stats.WatchEvents
    IN  IF stats.TotalEvents = 0 THEN "F"
        ELSE IF score2 > 200 THEN "S+"
        ELSE IF score2 > 140 THEN "S"
        ELSE IF score2 > 80 THEN "A+"
        ELSE IF score2 > 50 THEN "A"
        ELSE IF score2 > 30 THEN "B+"
        ELSE IF score2 > 16 THEN "B"
        ELSE IF score2 > 6 THEN "C"
        ELSE IF score2 > 2 THEN "D"
        ELSE "F"

\* mutant: the labels of two neighbouring bands are exchanged
getGrade_swapped(stats) ==
    LET score2 == 2 * stats.PushEvents + 6 * stats.PullRequestEvents
                  + 2 * stats.CreateEvents + 3 * stats.IssueEvents + stats.WatchEvents
    IN  IF stats.TotalEvents = 0 THEN "F"
        ELSE IF score2 >= 200 THEN "S+"
        ELSE IF score2 >= 140 THEN "S"
        ELSE IF score2 >= 80 THEN "A"
        ELSE IF score2 >= 50 THEN "A+"
        ELSE IF score2 >= 30 THEN "B+"
        ELSE IF score2 >= 16 THEN "B"
        ELSE IF score2 >= 6 THEN "C"
        ELSE IF score2 >= 2 THEN "D"
        ELSE "F"

\* getGrade; the score is kept doubled so that the weights 1.5 and 0.5 stay integers
getGrade(stats) ==
    LET score2 == 2 * stats.PushEvents + 6 * stats.PullRequestEvents
                  + 2 * stats.CreateEvents + 3 * stats.IssueEvents + stats.WatchEvents
    IN  IF stats.TotalEvents = 0 THEN "F"
        ELSE IF score2 >= 200 THEN "S+"
        ELSE IF score2 >= 140 THEN "S"
        ELSE IF score2 >= 80 THEN "A+"
        ELSE IF score2 >= 50 THEN "A"
        ELSE IF score2 >= 30 THEN "B+"
        ELSE IF score2 >= 16 THEN "B"
        ELSE IF score2 >= 6 THEN "C"
        ELSE IF score2 >= 2 THEN "D"
        ELSE "F"

\* the zero time.Time, before every timestamp of an event
ZeroTime == 0

\* mutant: events without a repository name are grouped too
groupEvent_anyName(maps, event) ==
    LET name == event.Repo.Name
        count == IF name \in DOMAIN maps.repoCount THEN maps.repoCount[name] ELSE 0
        last == IF name \in DOMAIN maps.reposLastAct THEN maps.reposLastAct[name] ELSE ZeroTime
    IN  [repoCount |-> [n \in DOMAIN maps.repoCount \cup {name} |->
                           IF n = name THEN count + 1 ELSE maps.repoCount[n]],
         reposLastAct |->
             IF event.CreatedAt > last
             THEN [n \in DOMAIN maps.reposLastAct \cup {name} |->
                      IF n = name THEN event.CreatedAt ELSE maps.reposLastAct[n]]
             ELSE maps.reposLastAct]

\* mutant: the time of every event of the name is stored, later or not
groupEvent_lastSeen(maps, event) ==
    LET name == event.Repo.Name
        count == IF name \in DOMAIN maps.repoCount THEN maps.repoCount[name] ELSE 0
    IN  IF name # ""
        THEN [repoCount |-> [n \in DOMAIN maps.repoCount \cup {name} |->
                                IF n = name THEN count + 1 ELSE maps.repoCount[n]],
              reposLastAct |->
                  [n \in DOMAIN maps.reposLastAct \cup {name} |->
                      IF n = name THEN event.CreatedAt ELSE maps.reposLastAct[n]]]
        ELSE maps

\* one iteration of the first loop of getTopRepos; maps holds the two Go maps,
\* a missing key reading as the zero value
groupEvent(maps, event) ==
    LET name == event.Repo.Name
        count == IF name \in DOMAIN maps.repoCount THEN maps.repoCount[name] ELSE 0
        last == IF name \in DOMAIN maps.reposLastAct THEN maps.reposLastAct[name] ELSE ZeroTime
    IN  IF name # ""
        THEN [repoCount |-> [n \in DOMAIN maps.repoCount \cup {name} |->
                                IF n = name THEN count + 1 ELSE maps.repoCount[n]],
              reposLastAct |->
                  IF event.CreatedAt > last
                  THEN [n \in DOMAIN maps.reposLastAct \cup {name} |->
                           IF n = name THEN event.CreatedAt ELSE maps.reposLastAct[n]]
                  ELSE maps.reposLastAct]
        ELSE maps

RECURSIVE groupEventsFrom(_, _, _)
\* the first loop of getTopRepos from index i on
groupEventsFrom(events, i, maps) ==
    IF i > Len(events)
    THEN maps
    ELSE groupEventsFrom(events, i + 1, groupEvent(maps, events[i]))

\* the RepoInfo getTopRepos builds for one key of repoCount
RepoInfo(name, maps) ==
    [Name |-> name,
     URL |-> <<"https://github.com/", name>>,
     CloneURL |-> <<"https://github.com/", name, ".git">>,
     Count |-> maps.repoCount[name],
     LastActivity |-> IF name \in DOMAIN maps.reposLastAct
                      THEN maps.reposLastAct[name] ELSE ZeroTime,
     Description |-> ""]

\* the orders in which a range over a Go map with key set S can visit the keys
MapOrders(S) ==
    {order \in [1..Cardinality(S) -> S] :
        \A a, b \in 1..Cardinality(S) : order[a] = order[b] => a = b}

\* mutant: the exchange keeps the smaller count in front
exchange_ascending(repos, j) ==
    IF repos[j + 1].Count > repos[j + 2].Count
    THEN [repos EXCEPT ![j + 1] = repos[j + 2], ![j + 2] = repos[j + 1]]
    ELSE repos

\* the body of the inner loop of the sort, j counting from 0 as in the code
exchange(repos, j) ==
    IF repos[j + 1].Count < repos[j + 2].Count
    THEN [repos EXCEPT ![j + 1] = repos[j + 2], ![j + 2] = repos[j + 1]]
    ELSE repos

RECURSIVE sortInner(_, _, _)
\* for j := 0; j < len(repos)-i-1; j++
sortInner(repos, i, j) ==
    IF j < Len(repos) - i - 1
    THEN sortInner(exchange(repos, j), i, j + 1)
    ELSE repos

RECURSIVE sortOuter(_, _)
\* for i := 0; i < len(repos)-1; i++
sortOuter(repos, i) ==
    IF i < Len(repos) - 1
    THEN sortOuter(sortInner(repos, i, 0), i + 1)
    ELSE repos

\* the keys of a Go map in the order a range visits them: the iteration order is
\* not specified, it is given here as a ranking of all strings in use
rangeOver(keys, ranking) ==
    LET inMap(name) == name \in keys
    IN  SelectSeq(ranking, inMap)

\* getTopRepos, ranking deciding the order in which the range over repoCount goes
getTopRepos(events, ranking) ==
    LET maps == groupEventsFrom(events, 1, [repoCount |-> <<>>, reposLastAct |-> <<>>])
        order == rangeOver(DOMAIN maps.repoCount, ranking)
        repos == [k \in 1..Len(order) |-> RepoInfo(order[k], maps)]
    IN  sortOuter(repos, 0)

\* formatNumber: <<unit, value>>, the value in tenths of the unit when there is one
\* (%.1f rounds to the nearest tenth)
formatNumber(n) ==
    IF n >= 1000000 THEN <<"M", (n + 50000) \div 100000>>
    ELSE IF n >= 1000 THEN <<"k", (n + 50) \div 100>>
    ELSE <<"", n>>

----------------------------------------------------------------------------
(* Strings that are searched: sequences of characters *)

\* strings.ToLower on one character of the alphabet in use
lowerChar(c) ==
    CASE c = "A" -> "a"
      [] c = "B" -> "b"
      [] OTHER -> c

\* strings.ToLower
ToLower(s) == [i \in 1..Len(s) |-> lowerChar(s[i])]

\* strings.Contains(s, sub)
Contains(s, sub) ==
    \E i \in 0..(Len(s) - Len(sub)) : SubSeq(s, i + 1, i + Len(sub)) = sub

\* the values the search input can hold: closed under removing the last character
TypedQueries == {<<>>, <<"A">>, <<"x">>, <<"r">>}

\* the characters a key press can add to the search input
Alphabet == {"A", "x", "r"}

----------------------------------------------------------------------------
(* Model and its helpers (part_001) *)

repoItem(repo) == [kind |-> "repoItem", repo |-> repo]

activityItem(event) == [kind |-> "activityItem", event |-> event]

EmptyContent == [title |-> "", repos |-> <<>>, activity |-> <<>>]

\* NewModel: the fields it sets, the others at their zero values
NewModel ==
    [events |-> <<>>, publicRepos |-> <<>>, stats |-> ZeroStats,
     list |-> [items |-> <<>>, title |-> <<"Loading...">>],
     table |-> [rows |-> <<>>, height |-> 0],
     viewport |-> EmptyContent,
     helpShowAll |-> FALSE,
     search |-> <<>>,
     currentView |-> "repoListView",
     loading |-> TRUE,
     searchMode |-> FALSE,
     notification |-> <<>>,
     notifSuccess |-> FALSE,
     width |-> 0,
     height |-> 0,
     helpWidth |-> 0,
     listSize |-> <<0, 0>>,
     viewportSize |-> <<0, 0>>,
     ready |-> FALSE,
     reposLoaded |-> FALSE,
     eventsLoaded |-> FALSE]

\* mutant: one completion is enough to leave the loading state
checkLoadingComplete_either(mm) ==
    IF mm.reposLoaded \/ mm.eventsLoaded
    THEN [mm EXCEPT !.loading = FALSE, !.ready = TRUE]
    ELSE mm

checkLoadingComplete(mm) ==
    IF mm.reposLoaded /\ mm.eventsLoaded
    THEN [mm EXCEPT !.loading = FALSE, !.ready = TRUE]
    ELSE mm

updateRepoList(mm) ==
    [mm EXCEPT !.list =
        [items |-> [i \in 1..Len(mm.publicRepos) |-> repoItem(mm.publicRepos[i])],
         title |-> <<"Public Repositories", Len(mm.publicRepos)>>]]

\* mutant: the items are filled from the last row up
updateActivityList_reversed(mm) ==
    [mm EXCEPT !.list =
        [items |-> [i \in 1..Len(mm.events) |->
                        activityItem(mm.events[Len(mm.events) + 1 - i])],
         title |-> <<"Recent Activity", Len(mm.events)>>]]

updateActivityList(mm) ==
    [mm EXCEPT !.list =
        [items |-> [i \in 1..Len(mm.events) |-> activityItem(mm.events[i])],
         title |-> <<"Recent Activity", Len(mm.events)>>]]

\* mutant: the comparison keeps the case of the letters
RECURSIVE filterRepos_caseSensitive(_, _)
filterRepos_caseSensitive(repos, query) ==
    IF repos = <<>>
    THEN <<>>
    ELSE LET repo == Head(repos)
             hit == \/ Contains(repo.Name, query)
                    \/ Contains(repo.Description, query)
         IN  (IF hit THEN <<repoItem(repo)>> ELSE <<>>)
             \o filterRepos_caseSensitive(Tail(repos), query)

\* the repositories of repos matching query, in order
RECURSIVE filterRepos(_, _)
filterRepos(repos, query) ==
    IF repos = <<>>
    THEN <<>>
    ELSE LET repo == Head(repos)
             hit == \/ Contains(ToLower(repo.Name), ToLower(query))
                    \/ Contains(ToLower(repo.Description), ToLower(query))
         IN  (IF hit THEN <<repoItem(repo)>> ELSE <<>>) \o filterRepos(Tail(repos), query)

filterRepoList(mm, query) ==
    IF query = <<>>
    THEN updateRepoList(mm)
    ELSE LET filtered == filterRepos(mm.publicRepos, query)
         IN  [mm EXCEPT !.list =
                 [items |-> filtered,
                  title |-> <<"Repositories matching", query, Len(filtered)>>]]

tableRow(repo) ==
    [Name |-> repo.Name,
     Stars |-> formatNumber(repo.Stars),
     Forks |-> formatNumber(repo.Forks),
     Language |-> IF repo.Language = "" THEN "-" ELSE repo.Language,
     Updated |-> repo.UpdatedAt]

updateRepoTable(mm) ==
    [mm EXCEPT !.table =
        [rows |-> [i \in 1..Len(mm.publicRepos) |-> tableRow(mm.publicRepos[i])],
         height |-> mm.height - 8]]

\* mutant: the table is made anew without the rows of the old one
updateTableSize_dropRows(mm) ==
    IF mm.height > 0
    THEN [mm EXCEPT !.table = [rows |-> <<>>, height |-> mm.height - 8]]
    ELSE mm

\* updateTableSize: with a positive height the table is made anew from the columns
\* and rows of the old one
updateTableSize(mm) ==
    IF mm.height > 0
    THEN [mm EXCEPT !.table = [rows |-> mm.table.rows, height |-> mm.height - 8]]
    ELSE mm

RECURSIVE sumOf(_, _)
\* the sum of field f over the repositories
sumOf(repos, f) ==
    IF repos = <<>> THEN 0 ELSE Head(repos)[f] + sumOf(Tail(repos), f)

\* renderDetailedStats: the values the text block is built from
renderDetailedStats(mm) ==
    LET repos == mm.publicRepos
        langs == {repos[i].Language : i \in 1..Len(repos)} \ {""}
    IN  [title |-> "Detailed Statistics",
         repos |->
            IF Len(repos) > 0
            THEN <<[total |-> Len(repos),
                    stars |-> formatNumber(sumOf(repos, "Stars")),
                    forks |-> formatNumber(sumOf(repos, "Forks")),
                    top |-> [i \in 1..(IF Len(repos) < 5 THEN Len(repos) ELSE 5) |->
                                <<repos[i].Name, formatNumber(repos[i].Stars)>>],
                    languages |-> [l \in langs |->
                                Cardinality({i \in 1..Len(repos) : repos[i].Language = l})]]>>
            ELSE <<>>,
         activity |->
            IF Len(mm.events) > 0
            THEN <<[push |-> mm.stats.PushEvents,
                    pullRequest |-> mm.stats.PullRequestEvents,
                    issue |-> mm.stats.IssueEvents,
                    create |-> mm.stats.CreateEvents,
                    watch |-> mm.stats.WatchEvents,
                    total |-> mm.stats.TotalEvents,
                    grade |-> getGrade(mm.stats)]>>
            ELSE <<>>]

updateStatsView(mm) == [mm EXCEPT !.viewport = renderDetailedStats(mm)]

\* mutant: entering the repository list applies the query of the search input again
nextView_keepFilter(mm) ==
    LET next == CASE mm.currentView = "repoListView" -> "repoTableView"
                  [] mm.currentView = "repoTableView" -> "statsView"
                  [] mm.currentView = "statsView" -> "activityView"
                  [] mm.currentView = "activityView" -> "repoListView"
        m1 == [mm EXCEPT !.currentView = next]
    IN  CASE next = "repoListView" -> filterRepoList(m1, m1.search)
          [] next = "activityView" -> updateActivityList(m1)
          [] next = "statsView" -> updateStatsView(m1)
          [] OTHER -> m1

\* mutant: the statistics view leads back to the repository list
nextView_skip(mm) ==
    LET next == CASE mm.currentView = "repoListView" -> "repoTableView"
                  [] mm.currentView = "repoTableView" -> "statsView"
                  [] mm.currentView = "statsView" -> "repoListView"
                  [] mm.currentView = "activityView" -> "repoListView"
        m1 == [mm EXCEPT !.currentView = next]
    IN  CASE next = "repoListView" -> updateRepoList(m1)
          [] next = "activityView" -> updateActivityList(m1)
          [] next = "statsView" -> updateStatsView(m1)
          [] OTHER -> m1

nextView(mm) ==
    LET next == CASE mm.currentView = "repoListView" -> "repoTableView"
                  [] mm.currentView = "repoTableView" -> "statsView"
                  [] mm.currentView = "statsView" -> "activityView"
                  [] mm.currentView = "activityView" -> "repoListView"
        m1 == [mm EXCEPT !.currentView = next]
    IN  CASE next = "repoListView" -> updateRepoList(m1)
          [] next = "activityView" -> updateActivityList(m1)
          [] next = "statsView" -> updateStatsView(m1)
          [] OTHER -> m1

----------------------------------------------------------------------------
(* Commands: what each delivers to Update *)

\* perPage of fetchPublicRepos
PerPage == 100

\* the answer to the request for the page: past the last page the API sends an
\* empty list
requestPage(api, page) == IF page <= Len(api) THEN api[page] ELSE pageOk(<<>>)

\* mutant: every repository of the page is kept
keepPublic_all(allRepos, repos) == allRepos \o repos

\* the filter loop of fetchPublicRepos: the repositories of the page that are not
\* private are appended to the collection
keepPublic(allRepos, repos) ==
    LET notPrivate(repo) == ~repo.Private
    IN  allRepos \o SelectSeq(repos, notPrivate)

RECURSIVE fetchPagesFrom(_, _, _)
\* the loop of fetchPublicRepos from the request for the page on
fetchPagesFrom(api, page, allRepos) ==
    LET resp == requestPage(api, page)
    IN  IF resp.err # Nil THEN [repos |-> <<>>, err |-> resp.err]
        ELSE IF Len(resp.repos) = 0 THEN [repos |-> allRepos, err |-> Nil]
        ELSE IF Len(resp.repos) < PerPage
             THEN [repos |-> keepPublic(allRepos, resp.repos), err |-> Nil]
             ELSE fetchPagesFrom(api, page + 1, keepPublic(allRepos, resp.repos))

\* fetchPublicRepos against an API that answers api: (repos, nil) or (nil, err)
fetchPublicRepos(api) == fetchPagesFrom(api, 1, <<>>)

\* the local variables of fetchPublicRepos at the head of its loop; requests lists the
\* page numbers of the requests sent, result is <<>> until the function returns
fetchStart == [page |-> 1, allRepos |-> <<>>, requests |-> <<>>, result |-> <<>>]

\* mutant: an error returns the repositories collected from the pages before
fetchIteration_keepPartial(api, st) ==
    LET resp == requestPage(api, st.page)
        sent == [st EXCEPT !.requests = Append(@, st.page)]
    IN  IF resp.err # Nil
        THEN [sent EXCEPT !.result = <<[repos |-> st.allRepos, err |-> resp.err]>>]
        ELSE IF Len(resp.repos) = 0
        THEN [sent EXCEPT !.result = <<[repos |-> st.allRepos, err |-> Nil]>>]
        ELSE LET kept == keepPublic(st.allRepos, resp.repos)
             IN  IF Len(resp.repos) < PerPage
                 THEN [sent EXCEPT !.allRepos = kept,
                                   !.result = <<[repos |-> kept, err |-> Nil]>>]
                 ELSE [sent EXCEPT !.allRepos = kept, !.page = st.page + 1]

\* mutant: the last page is recognised by the number of repositories kept from it
fetchIteration_countKept(api, st) ==
    LET resp == requestPage(api, st.page)
        sent == [st EXCEPT !.requests = Append(@, st.page)]
    IN  IF resp.err # Nil
        THEN [sent EXCEPT !.result = <<[repos |-> <<>>, err |-> resp.err]>>]
        ELSE IF Len(resp.repos) = 0
        THEN [sent EXCEPT !.result = <<[repos |-> st.allRepos, err |-> Nil]>>]
        ELSE LET kept == keepPublic(st.allRepos, resp.repos)
             IN  IF Len(kept) - Len(st.allRepos) < PerPage
                 THEN [sent EXCEPT !.allRepos = kept,
                                   !.result = <<[repos |-> kept, err |-> Nil]>>]
                 ELSE [sent EXCEPT !.allRepos = kept, !.page = st.page + 1]

\* one iteration of the loop of fetchPublicRepos: the page is requested; an error
\* returns (nil, err), an empty page leaves the loop, the public repositories of
\* another page are collected and a page of fewer than perPage repositories leaves
\* the loop, a full page leads to the next page
fetchIteration(api, st) ==
    LET resp == requestPage(api, st.page)
        sent == [st EXCEPT !.requests = Append(@, st.page)]
    IN  IF resp.err # Nil
        THEN [sent EXCEPT !.result = <<[repos |-> <<>>, err |-> resp.err]>>]
        ELSE IF Len(resp.repos) = 0
        THEN [sent EXCEPT !.result = <<[repos |-> st.allRepos, err |-> Nil]>>]
        ELSE LET kept == keepPublic(st.allRepos, resp.repos)
             IN  IF Len(resp.repos) < PerPage
                 THEN [sent EXCEPT !.allRepos = kept,
                                   !.result = <<[repos |-> kept, err |-> Nil]>>]
                 ELSE [sent EXCEPT !.allRepos = kept, !.page = st.page + 1]

\* outcomes of fetchPublicRepos
FetchReposResults == {fetchPublicRepos(api) : api \in ApiAnswers}

\* outcomes of fetchGitHubActivity: (events, nil) or (nil, err)
FetchEventsResults ==
    {[events |-> e, err |-> Nil] : e \in EventPayloads}
    \cup {[events |-> <<>>, err |-> e] : e \in FetchErrors}

\* reposLoadedMsg built by loadReposCmd from the outcome of fetchPublicRepos
loadReposCmd(result) == [repos |-> result.repos, err |-> result.err]

\* eventsLoadedMsg built by loadEventsCmd from the outcome of fetchGitHubActivity
loadEventsCmd(result) ==
    IF result.err # Nil
    THEN [events |-> <<>>, stats |-> ZeroStats, err |-> result.err]
    ELSE [events |-> result.events, stats |-> calculateStats(result.events), err |-> Nil]

\* NotificationMsg of cloneRepo / copyURL / openInBrowser; failed tells whether the
\* clipboard or browser command returned an error
actionMsg(kind, repo, failed) ==
    CASE kind = "clone" ->
            IF failed
            THEN [message |-> <<"Copy Error: ", "exit status 1">>, isSuccess |-> FALSE]
            ELSE [message |-> <<"Clone command copied: ">> \o repo.Name, isSuccess |-> TRUE]
      [] kind = "copy" ->
            IF failed
            THEN [message |-> <<"Copy Error: ", "exit status 1">>, isSuccess |-> FALSE]
            ELSE [message |-> <<"URL copied: ">> \o repo.Name, isSuccess |-> TRUE]
      [] kind = "open" ->
            IF failed
            THEN [message |-> <<"Error opening browser: ", "exit status 1">>,
                  isSuccess |-> FALSE]
            ELSE [message |-> <<"Opened in browser: ">> \o repo.Name, isSuccess |-> TRUE]

----------------------------------------------------------------------------
(* Update: one operator per message handled *)

\* mutant: the payload is stored whether the fetch failed or not
UpdateReposLoaded_storeOnFailure(mm, msg) ==
    LET m1 == [mm EXCEPT !.reposLoaded = TRUE]
        m2 == IF msg.err # Nil
              THEN [m1 EXCEPT !.notification = <<"Error loading repositories: ", msg.err>>,
                              !.notifSuccess = FALSE]
              ELSE m1
    IN  checkLoadingComplete(
            updateRepoTable(updateRepoList([m2 EXCEPT !.publicRepos = msg.repos])))

\* mutant: the loaded flag is set only when the fetch succeeded
UpdateReposLoaded_flagOnSuccess(mm, msg) ==
    IF msg.err # Nil
    THEN checkLoadingComplete(
            [mm EXCEPT !.notification = <<"Error loading repositories: ", msg.err>>,
                       !.notifSuccess = FALSE])
    ELSE checkLoadingComplete(
            updateRepoTable(updateRepoList(
                [mm EXCEPT !.reposLoaded = TRUE, !.publicRepos = msg.repos])))

\* case reposLoadedMsg
UpdateReposLoaded(mm, msg) ==
    LET m1 == [mm EXCEPT !.reposLoaded = TRUE]
        m2 == IF msg.err # Nil
              THEN [m1 EXCEPT !.notification = <<"Error loading repositories: ", msg.err>>,
                              !.notifSuccess = FALSE]
              ELSE updateRepoTable(updateRepoList([m1 EXCEPT !.publicRepos = msg.repos]))
    IN  checkLoadingComplete(m2)

\* mutant: the new events are stored without their stats
UpdateEventsLoaded_keepStats(mm, msg) ==
    LET m1 == [mm EXCEPT !.eventsLoaded = TRUE]
        m2 == IF msg.err # Nil
              THEN [m1 EXCEPT !.notification = <<"Error loading activity: ", msg.err>>,
                              !.notifSuccess = FALSE]
              ELSE updateActivityList([m1 EXCEPT !.events = msg.events])
    IN  checkLoadingComplete(m2)

\* case eventsLoadedMsg
UpdateEventsLoaded(mm, msg) ==
    LET m1 == [mm EXCEPT !.eventsLoaded = TRUE]
        m2 == IF msg.err # Nil
              THEN [m1 EXCEPT !.notification = <<"Error loading activity: ", msg.err>>,
                              !.notifSuccess = FALSE]
              ELSE updateActivityList([m1 EXCEPT !.events = msg.events,
                                                 !.stats = msg.stats])
    IN  checkLoadingComplete(m2)

\* case tea.WindowSizeMsg
UpdateWindowSize(mm, width, height) ==
    LET m1 == [mm EXCEPT !.width = width, !.height = height, !.helpWidth = width,
                         !.listSize = <<width - 4, height - 10>>]
    IN  [updateTableSize(m1) EXCEPT !.viewportSize = <<width - 4, height - 10>>]

\* the duration of the tick a NotificationMsg arms, in seconds
TickDelay == 3

\* mutant: a notification on screen is kept, the new one is dropped
UpdateNotification_keepCurrent(mm, msg) ==
    IF mm.notification = <<>>
    THEN [mm EXCEPT !.notification = msg.message, !.notifSuccess = msg.isSuccess]
    ELSE mm

\* case NotificationMsg (the tick it arms is in the action)
UpdateNotification(mm, msg) ==
    [mm EXCEPT !.notification = msg.message, !.notifSuccess = msg.isSuccess]

\* mutant: a failure notification is not cleared
UpdateClearNotification_keepFailure(mm) ==
    IF mm.notifSuccess THEN [mm EXCEPT !.notification = <<>>] ELSE mm

\* case ClearNotificationMsg
UpdateClearNotification(mm) == [mm EXCEPT !.notification = <<>>]

\* mutant: a refresh empties the working repository set and the list
UpdateRefresh_clearData(mm) ==
    updateRepoList([mm EXCEPT !.loading = TRUE,
                              !.reposLoaded = FALSE,
                              !.eventsLoaded = FALSE,
                              !.publicRepos = <<>>,
                              !.notification = <<"Refreshing data...">>,
                              !.notifSuccess = TRUE])

\* mutant: a refresh leaves the loading flag alone
UpdateRefresh_noLoading(mm) ==
    [mm EXCEPT !.reposLoaded = FALSE,
               !.eventsLoaded = FALSE,
               !.notification = <<"Refreshing data...">>,
               !.notifSuccess = TRUE]

\* mutant: a refresh clears ready as well
UpdateRefresh_resetReady(mm) ==
    [mm EXCEPT !.loading = TRUE,
               !.ready = FALSE,
               !.reposLoaded = FALSE,
               !.eventsLoaded = FALSE,
               !.notification = <<"Refreshing data...">>,
               !.notifSuccess = TRUE]

\* case tea.KeyMsg, keys.Refresh (the commands it starts are in the action)
UpdateRefresh(mm) ==
    [mm EXCEPT !.loading = TRUE,
               !.reposLoaded = FALSE,
               !.eventsLoaded = FALSE,
               !.notification = <<"Refreshing data...">>,
               !.notifSuccess = TRUE]

\* case tea.KeyMsg, keys.Help
UpdateHelp(mm) == [mm EXCEPT !.helpShowAll = ~@]

\* case tea.KeyMsg, keys.Search, in the repository list
UpdateSearch(mm) == [mm EXCEPT !.searchMode = TRUE]

\* mutant: the list is not rebuilt
searchCancel_keepFilter(mm) == [mm EXCEPT !.searchMode = FALSE, !.search = <<>>]

\* handleSearchInput, tea.KeyEsc / tea.KeyCtrlC
searchCancel(mm) == updateRepoList([mm EXCEPT !.searchMode = FALSE, !.search = <<>>])

\* handleSearchInput, tea.KeyEnter
searchSubmit(mm) == filterRepoList([mm EXCEPT !.searchMode = FALSE], mm.search)

\* handleSearchInput, any other key: the text input takes the character
searchType(mm, c) == [mm EXCEPT !.search = Append(@, c)]

\* the keys bound to keys.Left and keys.Right
LeftKeys == {"left", "h"}
RightKeys == {"right", "l"}

\* case tea.KeyMsg, a key no case of the switch matches: the component of the
\* current view takes the key (the list turns its page, the table and the viewport
\* scroll); no field held in this record is assigned
UpdateComponent(mm, key) == mm

\* handleSearchInput, a key that is no character (tab, left, right): the text input
\* moves its cursor or ignores the key, its value stays
searchMove(mm, key) == mm

\* list.SelectedItem with the cursor on the first row: <<>> stands for nil
SelectedItem(mm) == IF mm.list.items = <<>> THEN <<>> ELSE <<mm.list.items[1]>>

\* mutant: the active view is not looked at
canAct_anyView(mm) ==
    /\ Len(mm.publicRepos) > 0
    /\ SelectedItem(mm) # <<>>
    /\ SelectedItem(mm)[1].kind = "repoItem"

\* the condition under which keys.Clone / keys.Copy / keys.Open start their command
canAct(mm) ==
    /\ mm.currentView = "repoListView"
    /\ Len(mm.publicRepos) > 0
    /\ SelectedItem(mm) # <<>>
    /\ SelectedItem(mm)[1].kind = "repoItem"

----------------------------------------------------------------------------
(* The dashboard as a state machine: one action per message the runtime hands *)
(* to Update.                                                                 *)

running == pc = "dashboard" /\ ~quitting

\* NewModel, then Init: loadData starts the two fetches of load request 0
Init ==
    /\ m = NewModel
    /\ pendingRepos = {0}
    /\ pendingEvents = {0}
    /\ pendingActions = <<>>
    /\ pendingTicks = <<>>
    /\ loads = 0
    /\ quitting = FALSE
    /\ pc = "dashboard"
    /\ arg = <<>>
    /\ ret = <<>>

\* mutant: the completion of a fetch started before the last refresh is dropped
ReposLoaded_dropStale(g, result) ==
    /\ running
    /\ g \in pendingRepos
    /\ m' = IF g < loads THEN m ELSE UpdateReposLoaded(m, loadReposCmd(result))
    /\ pendingRepos' = pendingRepos \ {g}
    /\ UNCHANGED <<pendingEvents, pendingActions, pendingTicks, loads, quitting, pc, arg, ret>>

\* the loadReposCmd of load request g delivers its reposLoadedMsg
ReposLoaded(g, result) ==
    /\ running
    /\ g \in pendingRepos
    /\ m' = UpdateReposLoaded(m, loadReposCmd(result))
    /\ pendingRepos' = pendingRepos \ {g}
    /\ UNCHANGED <<pendingEvents, pendingActions, pendingTicks, loads, quitting, pc, arg, ret>>

\* the loadEventsCmd of load request g delivers its eventsLoadedMsg
EventsLoaded(g, result) ==
    /\ running
    /\ g \in pendingEvents
    /\ m' = UpdateEventsLoaded(m, loadEventsCmd(result))
    /\ pendingEvents' = pendingEvents \ {g}
    /\ UNCHANGED <<pendingRepos, pendingActions, pendingTicks, loads, quitting, pc, arg, ret>>

\* the i-th clone/copy/open command delivers its NotificationMsg; Update arms a tick
NotificationArrives(i, failed) ==
    /\ running
    /\ i \in 1..Len(pendingActions)
    /\ Len(pendingTicks) < MaxTicks
    /\ m' = UpdateNotification(m, actionMsg(pendingActions[i].kind,
                                            pendingActions[i].repo, failed))
    /\ pendingActions' = [j \in 1..(Len(pendingActions) - 1) |->
                              IF j < i THEN pendingActions[j] ELSE pendingActions[j + 1]]
    /\ pendingTicks' = Append(pendingTicks, TickDelay)
    /\ UNCHANGED <<pendingRepos, pendingEvents, loads, quitting, pc, arg, ret>>

\* one second passes: no armed tick is due, each has a second less to wait
TimePasses ==
    /\ running
    /\ pendingTicks # <<>>
    /\ \A k \in 1..Len(pendingTicks) : pendingTicks[k] > 0
    /\ pendingTicks' = [k \in 1..Len(pendingTicks) |-> pendingTicks[k] - 1]
    /\ UNCHANGED <<m, pendingRepos, pendingEvents, pendingActions, loads, quitting,
                   pc, arg, ret>>

\* the oldest tick is due: it fires and delivers ClearNotificationMsg
ClearNotification ==
    /\ running
    /\ pendingTicks # <<>>
    /\ Head(pendingTicks) = 0
    /\ m' = UpdateClearNotification(m)
    /\ pendingTicks' = Tail(pendingTicks)
    /\ UNCHANGED <<pendingRepos, pendingEvents, pendingActions, loads, quitting, pc, arg, ret>>

\* the terminal reports its size: at start and whenever the window is resized
WindowSize(width, height) ==
    /\ running
    /\ m' = UpdateWindowSize(m, width, height)
    /\ UNCHANGED <<pendingRepos, pendingEvents, pendingActions, pendingTicks, loads,
                   quitting, pc, arg, ret>>

\* mutant: the quit keys are looked at before the search mode
KeyQuit_anyMode ==
    /\ running
    /\ quitting' = TRUE
    /\ UNCHANGED <<m, pendingRepos, pendingEvents, pendingActions, pendingTicks, loads,
                   pc, arg, ret>>

\* q, esc or ctrl+c outside search mode: tea.Quit
KeyQuit ==
    /\ running
    /\ ~m.searchMode
    /\ quitting' = TRUE
    /\ UNCHANGED <<m, pendingRepos, pendingEvents, pendingActions, pendingTicks, loads,
                   pc, arg, ret>>

\* ? outside search mode
KeyHelp ==
    /\ running
    /\ ~m.searchMode
    /\ m' = UpdateHelp(m)
    /\ UNCHANGED <<pendingRepos, pendingEvents, pendingActions, pendingTicks, loads,
                   quitting, pc, arg, ret>>

\* tab outside search mode
KeyTab ==
    /\ running
    /\ ~m.searchMode
    /\ m' = nextView(m)
    /\ UNCHANGED <<pendingRepos, pendingEvents, pendingActions, pendingTicks, loads,
                   quitting, pc, arg, ret>>

\* mutant: / enters search mode in every view
KeySearch_anyView ==
    /\ running
    /\ ~m.searchMode
    /\ m' = UpdateSearch(m)
    /\ UNCHANGED <<pendingRepos, pendingEvents, pendingActions, pendingTicks, loads,
                   quitting, pc, arg, ret>>

\* / outside search mode, in the repository list
KeySearch ==
    /\ running
    /\ ~m.searchMode
    /\ m.currentView = "repoListView"
    /\ m' = UpdateSearch(m)
    /\ UNCHANGED <<pendingRepos, pendingEvents, pendingActions, pendingTicks, loads,
                   quitting, pc, arg, ret>>

\* mutant: a refresh starts the repositories fetch only
KeyRefresh_reposOnly ==
    /\ running
    /\ ~m.searchMode
    /\ loads < MaxRefresh
    /\ m' = UpdateRefresh(m)
    /\ loads' = loads + 1
    /\ pendingRepos' = pendingRepos \cup {loads + 1}
    /\ UNCHANGED <<pendingEvents, pendingActions, pendingTicks, quitting, pc, arg, ret>>

\* r outside search mode: the flags are reset and loadData starts two new fetches
KeyRefresh ==
    /\ running
    /\ ~m.searchMode
    /\ loads < MaxRefresh
    /\ m' = UpdateRefresh(m)
    /\ loads' = loads + 1
    /\ pendingRepos' = pendingRepos \cup {loads + 1}
    /\ pendingEvents' = pendingEvents \cup {loads + 1}
    /\ UNCHANGED <<pendingActions, pendingTicks, quitting, pc, arg, ret>>

\* c, x or o outside search mode, on a selected repository: the command is started
KeyAction(kind) ==
    /\ running
    /\ ~m.searchMode
    /\ canAct(m)
    /\ Len(pendingActions) < MaxActions
    /\ pendingActions' = Append(pendingActions,
                                [kind |-> kind, repo |-> SelectedItem(m)[1].repo])
    /\ UNCHANGED <<m, pendingRepos, pendingEvents, pendingTicks, loads, quitting,
                   pc, arg, ret>>

\* left, h, right or l outside search mode
KeyLeftRight(key) ==
    /\ running
    /\ ~m.searchMode
    /\ m' = UpdateComponent(m, key)
    /\ UNCHANGED <<pendingRepos, pendingEvents, pendingActions, pendingTicks, loads,
                   quitting, pc, arg, ret>>

\* esc or ctrl+c in search mode
SearchCancel ==
    /\ running
    /\ m.searchMode
    /\ m' = searchCancel(m)
    /\ UNCHANGED <<pendingRepos, pendingEvents, pendingActions, pendingTicks, loads,
                   quitting, pc, arg, ret>>

\* enter in search mode
SearchSubmit ==
    /\ running
    /\ m.searchMode
    /\ m' = searchSubmit(m)
    /\ UNCHANGED <<pendingRepos, pendingEvents, pendingActions, pendingTicks, loads,
                   quitting, pc, arg, ret>>

\* a character key in search mode
SearchType(c) ==
    /\ running
    /\ m.searchMode
    /\ Append(m.search, c) \in TypedQueries
    /\ m' = searchType(m, c)
    /\ UNCHANGED <<pendingRepos, pendingEvents, pendingActions, pendingTicks, loads,
                   quitting, pc, arg, ret>>

\* tab, left or right in search mode
SearchMove(key) ==
    /\ running
    /\ m.searchMode
    /\ m' = searchMove(m, key)
    /\ UNCHANGED <<pendingRepos, pendingEvents, pendingActions, pendingTicks, loads,
                   quitting, pc, arg, ret>>

ReposCompletion == \E g \in pendingRepos, result \in FetchReposResults : ReposLoaded(g, result)

EventsCompletion == \E g \in pendingEvents, result \in FetchEventsResults : EventsLoaded(g, result)

\* the user loads, refreshes, cycles the views and searches
Next ==
    \/ ReposCompletion
    \/ EventsCompletion
    \/ KeyQuit
    \/ KeyTab
    \/ KeySearch
    \/ KeyRefresh
    \/ SearchCancel
    \/ SearchSubmit
    \/ \E c \in Alphabet : SearchType(c)

Spec == Init /\ [][Next]_vars

\* the kinds of command the keys c, x and o start
ActionKinds == {"clone", "copy", "open"}

\* every key of the dashboard, in and out of search mode, while the repositories
\* load and the activity fetch is still in flight
NextKeys ==
    \/ ReposCompletion
    \/ KeyQuit
    \/ KeyHelp
    \/ KeyTab
    \/ \E key \in LeftKeys \cup RightKeys : KeyLeftRight(key)
    \/ KeySearch
    \/ KeyRefresh
    \/ \E kind \in ActionKinds : KeyAction(kind)
    \/ SearchCancel
    \/ SearchSubmit
    \/ \E c \in Alphabet : SearchType(c)
    \/ \E key \in {"tab", "left", "right"} : SearchMove(key)

SpecKeys == Init /\ [][NextKeys]_vars

\* the user loads, refreshes and cycles the views
NextLoad ==
    \/ ReposCompletion
    \/ EventsCompletion
    \/ KeyQuit
    \/ KeyTab
    \/ KeyRefresh

\* every command the runtime started runs to its end and its message is handled
FairSpec ==
    /\ Init
    /\ [][NextLoad]_vars
    /\ WF_vars(ReposCompletion)
    /\ WF_vars(EventsCompletion)

\* the user refreshes and clones, copies or opens while the repositories load,
\* the activity fetch is still in flight and time passes
NextActions ==
    \/ ReposCompletion
    \/ \E i \in 1..Len(pendingActions), failed \in BOOLEAN : NotificationArrives(i, failed)
    \/ TimePasses
    \/ ClearNotification
    \/ KeyQuit
    \/ KeyRefresh
    \/ \E kind \in ActionKinds : KeyAction(kind)

SpecActions == Init /\ [][NextActions]_vars

\* sizes a terminal reports; a terminal without a size reports 0 x 0
WindowWidths == {0, 80}
WindowHeights == {0, 20, 30}

\* the window is resized while the repositories load and are refreshed
NextResize ==
    \/ ReposCompletion
    \/ \E width \in WindowWidths, height \in WindowHeights : WindowSize(width, height)
    \/ KeyTab
    \/ KeyRefresh

SpecResize == Init /\ [][NextResize]_vars

\* the user changes view, searches and clones, copies or opens while both fetches
\* complete in any order
NextSelect ==
    \/ ReposCompletion
    \/ EventsCompletion
    \/ \E i \in 1..Len(pendingActions), failed \in BOOLEAN : NotificationArrives(i, failed)
    \/ KeyTab
    \/ KeySearch
    \/ SearchCancel
    \/ \E kind \in ActionKinds : KeyAction(kind)

SpecSelect == Init /\ [][NextSelect]_vars

----------------------------------------------------------------------------
(* calculateStats applied to every event list of at most MaxEvents events *)

StatsEvents == {GitHubEvent(t, "u/a", 1) : t \in EventTypes}

InitStats ==
    /\ m = NewModel
    /\ pendingRepos = {}
    /\ pendingEvents = {}
    /\ pendingActions = <<>>
    /\ pendingTicks = <<>>
    /\ loads = 0
    /\ quitting = FALSE
    /\ pc = "calculateStats"
    /\ arg \in SeqUpTo(StatsEvents, MaxEvents)
    /\ ret = ZeroStats

CallCalculateStats ==
    /\ pc = "calculateStats"
    /\ ret' = calculateStats(arg)
    /\ pc' = "done"
    /\ UNCHANGED <<m, pendingRepos, pendingEvents, pendingActions, pendingTicks, loads,
                   quitting, arg>>

NextStats == CallCalculateStats

SpecStats == InitStats /\ [][NextStats]_vars

----------------------------------------------------------------------------
(* Properties of the load coordinator *)

\* a fetch completion that carries an error / a payload
ReposFailure ==
    \E g \in pendingRepos, e \in FetchErrors : ReposLoaded(g, [repos |-> <<>>, err |-> e])

EventsFailure ==
    \E g \in pendingEvents, e \in FetchErrors : EventsLoaded(g, [events |-> <<>>, err |-> e])

EventsSuccess ==
    \E g \in pendingEvents, e \in EventPayloads : EventsLoaded(g, [events |-> e, err |-> Nil])

LiveReady == <>(quitting \/ (m.ready /\ ~m.loading))

\* C2 witness: ready was reached although every fetch so far failed (a successful
\* one would have left a non-empty repository set or event list)
ReadyAfterFailures ==
    /\ m.ready
    /\ ~m.loading
    /\ ~quitting
    /\ m.publicRepos = <<>>
    /\ m.events = <<>>
    /\ m.notification # <<>>
    /\ ~m.notifSuccess

\* the fields of the dashboard state that C3 compares
coordinatorState(mm) ==
    <<mm.reposLoaded, mm.eventsLoaded, mm.ready, mm.loading, mm.publicRepos, mm.events,
      mm.stats, mm.notification, mm.notifSuccess, mm.list>>

\* C3: from any state with both fetches in flight and for any pair of outcomes,
\* handling the repositories completion before the events completion and handling
\* them in the opposite order give the same dashboard state.
CompletionOrderCommutes ==
    (running /\ pendingRepos # {} /\ pendingEvents # {}) =>
        \A r \in FetchReposResults, e \in FetchEventsResults :
            coordinatorState(UpdateEventsLoaded(UpdateReposLoaded(m, loadReposCmd(r)),
                                                loadEventsCmd(e)))
            = coordinatorState(UpdateReposLoaded(UpdateEventsLoaded(m, loadEventsCmd(e)),
                                                 loadReposCmd(r)))

LoadingUntilBothLoaded ==
    /\ [](~m.loading => (m.reposLoaded /\ m.eventsLoaded))
    /\ [][KeyRefresh => m'.loading]_vars
    /\ [][(m.loading /\ ~m'.loading) =>
            /\ ReposCompletion \/ EventsCompletion
            /\ m'.reposLoaded /\ m'.eventsLoaded]_vars

\* C6 witness: loading was cleared again after a refresh whose fetches failed
LoadingClearedAfterRefresh ==
    /\ ~m.loading
    /\ loads > 0
    /\ m.notification # <<>>
    /\ ~m.notifSuccess

\* C7: a completion carrying an error sets its loaded flag, leaves a failure
\* notification (notifSuccess false, message not empty) and does not quit; for
\* the repositories fetch and for the events fetch.
FetchFailureNotifies ==
    [][/\ ReposFailure =>
            (m'.reposLoaded /\ ~m'.notifSuccess /\ m'.notification # <<>> /\ ~quitting')
       /\ EventsFailure =>
            (m'.eventsLoaded /\ ~m'.notifSuccess /\ m'.notification # <<>> /\ ~quitting')]_vars

\* C7 witness: the repositories fetch failed while the events fetch is in flight
ReposFailedFirst ==
    /\ m.reposLoaded
    /\ ~m.eventsLoaded
    /\ m.notification = <<"Error loading repositories: ", "http error 500">>
    /\ ~m.notifSuccess
    /\ ~quitting

\* C8: stats is calculateStats of the current events in every reachable state, and
\* events or stats change only in the step that handles a successful events
\* completion, which replaces both.
StatsMatchEvents ==
    /\ [](m.stats = calculateStats(m.events))
    /\ [][(m'.events # m.events \/ m'.stats # m.stats) => EventsSuccess]_vars

\* C8 witness: the events were replaced by those of a second successful fetch
EventsReplacedTwice ==
    /\ m.events = <<EvIssue, EvOther>>
    /\ m.stats.OtherEvents = 1
    /\ loads > 0
    /\ pendingEvents = {}

----------------------------------------------------------------------------
(* Properties of calculateStats *)

nineCounters(stats) ==
    stats.PushEvents + stats.IssueEvents + stats.WatchEvents + stats.ForkEvents
    + stats.CreateEvents + stats.DeleteEvents + stats.PullRequestEvents
    + stats.ReleaseEvents + stats.PublicEvents

\* C9: TotalEvents of calculateStats(E) is the length of E.
TotalIsLength == pc = "done" => ret.TotalEvents = Len(arg)

\* C9 witness: a list of several events of different kinds was counted
CountedMixedList ==
    /\ pc = "done"
    /\ Len(arg) > 1
    /\ ret.PushEvents = 1
    /\ ret.OtherEvents = 1

\* C10 as stated: the nine event-kind counters of calculateStats(E) sum to TotalEvents.
NineSumToTotal == pc = "done" => nineCounters(ret) = ret.TotalEvents

\* C10 as amended: the nine event-kind counters and OtherEvents together sum to
\* TotalEvents; the nine alone sum to TotalEvents less the events of any other kind.
TenSumToTotal == pc = "done" => nineCounters(ret) + ret.OtherEvents = ret.TotalEvents

\* C10 witness: a list holding an event of another kind next to counted ones
CountedOtherKind ==
    /\ pc = "done"
    /\ ret.OtherEvents > 0
    /\ nineCounters(ret) > 0

----------------------------------------------------------------------------
(* getGrade applied to stats values *)

\* the dashboard at rest, for the specifications that drive one function
idleDashboard ==
    /\ m = NewModel
    /\ pendingRepos = {}
    /\ pendingEvents = {}
    /\ pendingActions = <<>>
    /\ pendingTicks = <<>>
    /\ loads = 0
    /\ quitting = FALSE

\* GitHubStats values: the five weighted counters, one unweighted counter, and a
\* total that is the sum of the counters (as calculateStats leaves it) or zero
GradeStats ==
    {[ZeroStats EXCEPT !.PushEvents = p, !.PullRequestEvents = pr, !.CreateEvents = c,
                       !.IssueEvents = i, !.WatchEvents = w, !.ForkEvents = f,
                       !.TotalEvents = t * (p + pr + c + i + w + f)] :
        p \in 0..MaxOfKind, pr \in 0..MaxPullRequests, c \in 0..MaxOfKind,
        i \in 0..MaxOfKind, w \in 0..MaxOfKind, f \in {0, 1}, t \in {0, 1}}

InitGrade ==
    /\ idleDashboard
    /\ pc = "getGrade"
    /\ arg \in GradeStats
    /\ ret = ""

CallGetGrade ==
    /\ pc = "getGrade"
    /\ ret' = getGrade(arg)
    /\ pc' = "done"
    /\ UNCHANGED <<m, pendingRepos, pendingEvents, pendingActions, pendingTicks, loads,
                   quitting, arg>>

NextGrade == CallGetGrade

SpecGrade == InitGrade /\ [][NextGrade]_vars

\* twice the weighted score of C11: Push*1.0 + PullRequest*3.0 + Create*1.0
\* + Issue*1.5 + Watch*0.5
weightedScore2(stats) ==
    2 * stats.PushEvents + 6 * stats.PullRequestEvents + 2 * stats.CreateEvents
    + 3 * stats.IssueEvents + stats.WatchEvents

\* the bands of C11 from the highest down: <<threshold, grade>>
GradeBands ==
    <<<<100, "S+">>, <<70, "S">>, <<40, "A+">>, <<25, "A">>, <<15, "B+">>,
      <<8, "B">>, <<3, "C">>, <<1, "D">>>>

\* the grade of the highest band whose threshold the score reaches, "F" under all
bandOf(score2) ==
    LET reached == {k \in 1..Len(GradeBands) : score2 >= 2 * GradeBands[k][1]}
    IN  IF reached = {}
        THEN "F"
        ELSE GradeBands[CHOOSE k \in reached : \A j \in reached : k <= j][2]

\* the order F < D < C < B < B+ < A < A+ < S < S+
gradeRank ==
    [grade \in {"F"} \cup {GradeBands[k][2] : k \in 1..Len(GradeBands)} |->
        CHOOSE k \in 0..Len(GradeBands) :
            IF grade = "F"
            THEN k = 0
            ELSE k > 0 /\ GradeBands[Len(GradeBands) + 1 - k][2] = grade]

\* C11: getGrade is "F" when TotalEvents = 0 and otherwise the band of the weighted
\* score under the thresholds 1, 3, 8, 15, 25, 40, 70, 100; 3 pushes, 2 issues and
\* 1 watch (total 6, score 6.5) grade "C".
GradeIsBand ==
    pc = "done" =>
        /\ ret = (IF arg.TotalEvents = 0 THEN "F" ELSE bandOf(weightedScore2(arg)))
        /\ (/\ arg.PushEvents = 3
            /\ arg.IssueEvents = 2
            /\ arg.WatchEvents = 1
            /\ arg.TotalEvents = 6) => ret = "C"

\* C11 witness: the scenario of 3 pushes, 2 issues and 1 watch was graded
GradedScenario ==
    /\ pc = "done"
    /\ arg = [ZeroStats EXCEPT !.PushEvents = 3, !.IssueEvents = 2, !.WatchEvents = 1,
                               !.TotalEvents = 6]
    /\ ret = "C"

\* a stats value as calculateStats produces it: the total is the sum of the counters
consistentStats(stats) == stats.TotalEvents = nineCounters(stats) + stats.OtherEvents

\* a stats value as calculateStats produces it whose doubled score is k
probeAt(k) ==
    LET pr == k \div 6
        p == (k % 6) \div 2
        w == k % 2
    IN  [ZeroStats EXCEPT !.PullRequestEvents = pr, !.PushEvents = p, !.WatchEvents = w,
                          !.TotalEvents = pr + p + w]

\* the rank of the grade getGrade gives at every doubled score from 0 to that of
\* MaxPullRequests pull requests, 2 pushes and 1 watch
probeRanks == [k \in 0..(6 * MaxPullRequests + 5) |-> gradeRank[getGrade(probeAt(k))]]

\* C12: for stats values as calculateStats produces them, a lower or equal weighted
\* score never has a higher grade in the order F < D < C < B < B+ < A < A+ < S < S+.
GradeMonotone ==
    (pc = "done" /\ consistentStats(arg)) =>
        \A k \in DOMAIN probeRanks :
            /\ weightedScore2(arg) <= k => gradeRank[ret] <= probeRanks[k]
            /\ k <= weightedScore2(arg) => probeRanks[k] <= gradeRank[ret]

\* C12 witness: a stats value of the top band was graded, and the probes have the
\* scores they stand for
GradedTopBand ==
    /\ pc = "done"
    /\ consistentStats(arg)
    /\ weightedScore2(arg) >= 200
    /\ ret = "S+"
    /\ \A k \in DOMAIN probeRanks : weightedScore2(probeAt(k)) = k

----------------------------------------------------------------------------
(* getTopRepos applied to event lists *)

\* events of three repositories and events without a repository name
TopNames == {"", "u/a", "u/c", "u/x"}

TopEvents == {GitHubEvent("PushEvent", name, at) : name \in TopNames, at \in {1, 2}}

\* the rankings of the names: every order of the names that can be keys of repoCount,
\* after the empty name, which never is one
TopRankings == {<<"">> \o order : order \in MapOrders(TopNames \ {""})}

\* the repository names with an event in the list, that is the keys of repoCount
namedRepos(events) == {events[k].Repo.Name : k \in 1..Len(events)} \ {""}

InitTop ==
    /\ idleDashboard
    /\ pc = "getTopRepos"
    /\ arg \in [events : SeqUpTo(TopEvents, MaxTopEvents), ranking : TopRankings]
    /\ ret = <<>>

CallGetTopRepos ==
    /\ pc = "getTopRepos"
    /\ ret' = getTopRepos(arg.events, arg.ranking)
    /\ pc' = "done"
    /\ UNCHANGED <<m, pendingRepos, pendingEvents, pendingActions, pendingTicks, loads,
                   quitting, arg>>

NextTop == CallGetTopRepos

SpecTop == InitTop /\ [][NextTop]_vars

\* C13: the sequence getTopRepos returns is non-increasing by Count, whatever the
\* order in which the grouped entries were produced before the sort.
TopSortedByCount ==
    pc = "done" => \A k \in 1..(Len(ret) - 1) : ret[k].Count >= ret[k + 1].Count

\* C13 witness: three entries were produced with the counts rising, and came out with
\* the counts falling
TopSortedFromAscending ==
    /\ pc = "done"
    /\ Len(ret) = 3
    /\ ret[1].Name = rangeOver(namedRepos(arg.events), arg.ranking)[3]
    /\ ret[1].Count = 2
    /\ ret[3].Count = 1

\* the events of the list that reference the repository name
referencing(events, name) == {k \in 1..Len(events) : events[k].Repo.Name = name}

\* C14: getTopRepos returns one entry for every distinct non-empty repository name of
\* the events and no other entry, each with Count the number of events referencing
\* the name; events with an empty name add to no entry.
TopOneEntryPerName ==
    pc = "done" =>
        /\ {ret[k].Name : k \in 1..Len(ret)} = namedRepos(arg.events)
        /\ Len(ret) = Cardinality(namedRepos(arg.events))
        /\ \A k \in 1..Len(ret) :
               /\ ret[k].Name # ""
               /\ ret[k].Count = Cardinality(referencing(arg.events, ret[k].Name))

\* C14 witness: a list with a repeated name, another name and an event without name
TopOfMixedNames ==
    /\ pc = "done"
    /\ Len(ret) = 2
    /\ ret[1].Count = 2
    /\ referencing(arg.events, "") # {}

----------------------------------------------------------------------------
(* Properties of the working repository set *)

\* the public repositories of all the pages the API answered with, in their order
RECURSIVE publicOfPages(_, _)
publicOfPages(api, k) ==
    IF k > Len(api)
    THEN <<>>
    ELSE LET public == {i \in 1..Len(api[k].repos) : ~api[k].repos[i].Private}
             nth(n) == CHOOSE i \in public : Cardinality({j \in public : j <= i}) = n
         IN  [n \in 1..Cardinality(public) |-> api[k].repos[nth(n)]]
             \o publicOfPages(api, k + 1)

\* what the fetches that succeed should deliver: the public records of a raw answer
PublicParts ==
    {publicOfPages(api, 1) : api \in {a \in ApiAnswers : \A k \in 1..Len(a) : a[k].err = Nil}}

----------------------------------------------------------------------------
(* Properties of the keys *)

\* the ring of the views
ViewRing == <<"repoListView", "repoTableView", "statsView", "activityView">>

\* the place of the view in the ring
ringIndex(view) == CHOOSE k \in 1..Len(ViewRing) : ViewRing[k] = view

successorView(view) == ViewRing[(ringIndex(view) % Len(ViewRing)) + 1]

predecessorView(view) == ViewRing[((ringIndex(view) + Len(ViewRing) - 2) % Len(ViewRing)) + 1]

\* C16: one view of the four is active in every state; the tab key outside search
\* mode moves the active view to its successor List -> Table -> Statistics ->
\* Activity -> List; from the repository list four tabs visit Table, Statistics and
\* Activity once each and are back at the repository list.
TabCyclesViews ==
    /\ [](m.currentView \in {ViewRing[k] : k \in 1..Len(ViewRing)})
    /\ [][KeyTab => m'.currentView = successorView(m.currentView)]_vars
    /\ [](m.currentView = "repoListView" =>
             LET m1 == nextView(m)
                 m2 == nextView(m1)
                 m3 == nextView(m2)
                 m4 == nextView(m3)
             IN  <<m1.currentView, m2.currentView, m3.currentView, m4.currentView>>
                     = <<"repoTableView", "statsView", "activityView", "repoListView">>)

\* C16 witness: three tabs after both fetches led to the activity view
TabbedToActivity ==
    /\ m.currentView = "activityView"
    /\ m.ready
    /\ ~quitting

\* C17: outside search mode the keys left/h and right/l switch the active view along
\* the ring of the tab key.
LeftRightSwitchViews ==
    (running /\ ~m.searchMode) =>
        /\ \A key \in RightKeys :
               UpdateComponent(m, key).currentView = successorView(m.currentView)
        /\ \A key \in LeftKeys :
               UpdateComponent(m, key).currentView = predecessorView(m.currentView)

\* the repositories of the working set whose name or description contains the query,
\* letter case set aside, in the order of the working set
matching(repos, query) ==
    LET hit(repo) == \/ Contains(ToLower(repo.Name), ToLower(query))
                     \/ Contains(ToLower(repo.Description), ToLower(query))
    IN  SelectSeq(repos, hit)

\* C18: submitting the query q leaves in the list the repositories of the working set
\* whose name or description contains q whatever the case of the letters, in their
\* order, under a title with the number of matches and q as typed; the empty query
\* leaves the whole working set in its order (under the title of the full list).
SubmitFilters ==
    [][SearchSubmit =>
          LET hits == matching(m.publicRepos, m.search)
          IN  /\ m'.list.items = [k \in 1..Len(hits) |-> repoItem(hits[k])]
              /\ m.search # <<>> =>
                     m'.list.title = <<"Repositories matching", m.search, Len(hits)>>
              /\ m.search = <<>> =>
                     /\ Len(m'.list.items) = Len(m.publicRepos)
                     /\ \A k \in 1..Len(m.publicRepos) :
                            m'.list.items[k].repo = m.publicRepos[k]
                     /\ m'.list.title = <<"Public Repositories", Len(m.publicRepos)>>
              /\ m'.publicRepos = m.publicRepos
              /\ ~m'.searchMode]_vars

\* C18 witness: the query "A" was submitted over two repositories and kept both, one
\* for the "a" of its name and one for the "a" of its description
SubmittedMatchingBoth ==
    /\ ~m.searchMode
    /\ m.search = <<"A">>
    /\ Len(m.publicRepos) = 2
    /\ m.list.title = <<"Repositories matching", <<"A">>, 2>>
    /\ m.list.items = <<repoItem(RepoA), repoItem(RepoB)>>

\* C19: while search mode is on no key changes the active view, starts a refresh,
\* starts a clone/copy/open command, toggles help or quits; a key goes to the search
\* input, and only Enter and Esc/Ctrl+C leave search mode.
SearchCapturesKeys ==
    [][m.searchMode =>
          /\ m'.currentView = m.currentView
          /\ loads' = loads
          /\ pendingRepos' \subseteq pendingRepos
          /\ pendingEvents' \subseteq pendingEvents
          /\ pendingActions' = pendingActions
          /\ m'.helpShowAll = m.helpShowAll
          /\ quitting' = quitting
          /\ ~m'.searchMode => (SearchSubmit \/ SearchCancel)
          /\ (pendingRepos' = pendingRepos /\ pendingEvents' = pendingEvents) =>
                 \/ SearchSubmit
                 \/ SearchCancel
                 \/ \E c \in Alphabet : SearchType(c)]_vars

\* C19 witness: with a repository selected the key r was typed in search mode: it
\* went to the search input, nothing was refreshed or started
TypedCommandKeys ==
    /\ m.searchMode
    /\ m.search = <<"r">>
    /\ canAct(m)
    /\ loads = 0
    /\ pendingActions = <<>>
    /\ ~quitting

----------------------------------------------------------------------------
(* Properties of the notifications *)

\* C20: handling a NotificationMsg puts its message and success flag in place of the
\* current notification at once, whatever that was, and arms one tick more, due
\* TickDelay = 3 time units later; a tick delivers its clear event when it is due and
\* time does not pass over a due tick.
NotifyReplacesAndArms ==
    /\ [][\A i \in 1..Len(pendingActions), failed \in BOOLEAN :
              NotificationArrives(i, failed) =>
                  LET msg == actionMsg(pendingActions[i].kind, pendingActions[i].repo, failed)
                  IN  /\ m'.notification = msg.message
                      /\ m'.notifSuccess = msg.isSuccess
                      /\ Len(pendingTicks') = Len(pendingTicks) + 1
                      /\ pendingTicks'[Len(pendingTicks')] = 3
                      /\ \A k \in 1..Len(pendingTicks) : pendingTicks'[k] = pendingTicks[k]]_vars
    /\ [][(m'.notification = <<>> /\ m.notification # <<>>) =>
              (pendingTicks # <<>> /\ Head(pendingTicks) = 0)]_vars
    /\ [](\A k \in 1..Len(pendingTicks) : pendingTicks[k] \in 0..3)

\* C20 witness: a notification took the place of one shown two time units before,
\* whose tick is still armed next to the new one
NotificationReplaced ==
    /\ Len(pendingTicks) = 2
    /\ pendingTicks[1] = 1
    /\ pendingTicks[2] = 3
    /\ m.notification = <<"Copy Error: ", "exit status 1">>
    /\ ~m.notifSuccess

\* C21: the clear event empties the notification whichever NotificationMsg armed its
\* tick: the tick of a first notification, when it fires, removes a second
\* notification that took its place less than 3 time units before.
ClearIsUnconditional ==
    [][ClearNotification =>
          /\ m'.notification = <<>>
          /\ pendingTicks' = Tail(pendingTicks)]_vars

\* C21 witness: the second notification, a failure, was removed after one time unit,
\* its own tick still having two to wait
SecondNotificationCleared ==
    /\ m.notification = <<>>
    /\ ~m.notifSuccess
    /\ pendingTicks = <<2>>

\* C22: whenever the notification becomes non-empty or is replaced (by the result of
\* an action, by a fetch failure or by a refresh request) one clear tick more is
\* armed in the same step.
EveryNotificationArmsTick ==
    [][(m'.notification # <<>> /\ m'.notification # m.notification) =>
          (/\ Len(pendingTicks') = Len(pendingTicks) + 1
           /\ pendingTicks'[Len(pendingTicks')] = 3)]_vars

----------------------------------------------------------------------------
(* Command-line dispatch (main.go) *)

\* a command-line argument is a sequence of words and blanks
Blank == " "

ArgStrings ==
    {<<>>, <<Blank>>, <<"bob">>, <<Blank, "bob", Blank>>, <<"-h">>, <<"--help">>,
     <<"-v">>, <<"--version">>, <<"--repos">>, <<Blank, "--repos">>}

RECURSIVE TrimLeft(_)
TrimLeft(str) == IF str # <<>> /\ Head(str) = Blank THEN TrimLeft(Tail(str)) ELSE str

RECURSIVE TrimRight(_)
TrimRight(str) ==
    IF str # <<>> /\ str[Len(str)] = Blank
    THEN TrimRight(SubSeq(str, 1, Len(str) - 1))
    ELSE str

\* strings.TrimSpace
TrimSpace(str) == TrimRight(TrimLeft(str))

\* what a run of the process did: exit status, what it printed, the requests it
\* sent and the username of the dashboard it started (<<>> when it started none)
outcome(exit, printed, requests, dashboard) ==
    [exit |-> exit, printed |-> printed, requests |-> requests, dashboard |-> dashboard]

\* showPublicRepos; failed tells whether fetchPublicRepos returned an error
showPublicRepos(username, failed) ==
    IF failed
    THEN outcome(1, "Error fetching public repositories",
                 <<<<"fetchPublicRepos", username>>>>, <<>>)
    ELSE outcome(0, "printPublicRepos", <<<<"fetchPublicRepos", username>>>>, <<>>)

\* main, args being os.Args[1:]; failed tells whether the one outside operation of
\* the run (fetchPublicRepos of the report, p.Run of the dashboard) returned an error
main(args, failed) ==
    IF Len(args) + 1 < 2 THEN outcome(1, "showUsage", <<>>, <<>>)
    ELSE IF Len(args) + 1 >= 3 /\ args[1] = <<"--repos">>
    THEN LET username == TrimSpace(args[2])
         IN  IF username = <<>>
             THEN outcome(1, "error: username can't be empty", <<>>, <<>>)
             ELSE showPublicRepos(username, failed)
    ELSE LET username == TrimSpace(args[1])
         IN  CASE username \in {<<"-h">>, <<"--help">>} -> outcome(0, "showHelp", <<>>, <<>>)
               [] username \in {<<"-v">>, <<"--version">>} ->
                      outcome(0, "showVersion", <<>>, <<>>)
               [] username = <<"--repos">> ->
                      outcome(1, "error: --repos requires a username", <<>>, <<>>)
               [] username = <<>> -> outcome(1, "error: username can't be empty", <<>>, <<>>)
               [] OTHER ->
                      IF failed
                      THEN outcome(1, "error during the launch", <<<<"checkRateLimit">>>>,
                                   <<username>>)
                      ELSE outcome(0, "", <<<<"checkRateLimit">>>>, <<username>>)

InitMain ==
    /\ idleDashboard
    /\ pc = "main"
    /\ arg \in [args : SeqUpTo(ArgStrings, MaxArgs), failed : BOOLEAN]
    /\ ret = <<>>

CallMain ==
    /\ pc = "main"
    /\ ret' = main(arg.args, arg.failed)
    /\ pc' = "done"
    /\ UNCHANGED <<m, pendingRepos, pendingEvents, pendingActions, pendingTicks, loads,
                   quitting, arg>>

NextMain == CallMain

SpecMain == InitMain /\ [][NextMain]_vars

\* the first argument, blanks around it set aside
firstArg == TrimSpace(arg.args[1])

\* C23: without argument, with a first argument empty after trimming, or with --repos
\* and no non-empty username, the process exits non-zero, starts no dashboard and
\* sends no request; -h/--help and -v/--version print, exit 0 and send no request;
\* --repos with a username runs the report and starts no dashboard; any other
\* non-empty first argument starts the dashboard for that username.
DispatchByFirstArgument ==
    pc = "done" =>
        LET quiet == ret.exit # 0 /\ ret.dashboard = <<>> /\ ret.requests = <<>>
        IN  IF arg.args = <<>> THEN quiet
            ELSE IF firstArg = <<>> THEN quiet
            ELSE IF firstArg = <<"--repos">>
            THEN IF Len(arg.args) < 2 \/ TrimSpace(arg.args[2]) = <<>>
                 THEN quiet
                 ELSE /\ ret.requests = <<<<"fetchPublicRepos", TrimSpace(arg.args[2])>>>>
                      /\ ret.dashboard = <<>>
            ELSE IF firstArg \in {<<"-h">>, <<"--help">>}
            THEN ret.exit = 0 /\ ret.printed = "showHelp" /\ ret.requests = <<>>
            ELSE IF firstArg \in {<<"-v">>, <<"--version">>}
            THEN ret.exit = 0 /\ ret.printed = "showVersion" /\ ret.requests = <<>>
            ELSE ret.dashboard = <<firstArg>>

----------------------------------------------------------------------------
(* Properties of the item list *)

\* the repository items of a sequence of repositories
repoItems(repos) == [k \in 1..Len(repos) |-> repoItem(repos[k])]

\* C24: outside search mode the item list matches the active view: in the repository
\* list it holds the repository items of the working set, all of them or those
\* matching the submitted query, and in the activity feed it holds the items of the
\* current events.
ListMatchesView ==
    ~m.searchMode =>
        /\ m.currentView = "repoListView" =>
               \/ m.list.items = repoItems(m.publicRepos)
               \/ m.list.items = repoItems(matching(m.publicRepos, m.search))
        /\ m.currentView = "activityView" =>
               m.list.items = [k \in 1..Len(m.events) |-> activityItem(m.events[k])]

----------------------------------------------------------------------------
(* Properties of overlapping load requests *)

\* C25: the completion of a fetch counts the same whichever load request started the
\* fetch: it sets the loaded flag and, on success, replaces the working data (and on
\* failure leaves the error notification), so after a refresh the data can be those
\* of the older request.
StaleCompletionsCount ==
    /\ [][(pendingRepos' # pendingRepos /\ pendingRepos' \subseteq pendingRepos) =>
              /\ m'.reposLoaded
              /\ \/ /\ m'.publicRepos \in PublicParts
                    /\ m'.list.items = repoItems(m'.publicRepos)
                 \/ /\ m'.publicRepos = m.publicRepos
                    /\ \E e \in FetchErrors :
                           m'.notification = <<"Error loading repositories: ", e>>]_vars
    /\ [][(pendingEvents' # pendingEvents /\ pendingEvents' \subseteq pendingEvents) =>
              /\ m'.eventsLoaded
              /\ \/ /\ m'.events \in EventPayloads
                    /\ m'.stats = calculateStats(m'.events)
                 \/ /\ m'.events = m.events
                    /\ \E e \in FetchErrors :
                           m'.notification = <<"Error loading activity: ", e>>]_vars

\* C25 witness: after the refresh the repositories fetch of the first load request
\* completed, set the flag and delivered the working set, the fetch of the refresh
\* being still in flight
OlderFetchCounted ==
    /\ loads = 1
    /\ pendingRepos = {1}
    /\ m.reposLoaded
    /\ m.loading
    /\ Len(m.publicRepos) = 2

\* C26 as stated: in every state with loading = false no fetch is in flight.
NoFetchInFlightWhenLoaded == ~m.loading => (pendingRepos = {} /\ pendingEvents = {})

\* C26 as amended: loading = false says that one repositories completion and one
\* events completion were handled since the last refresh, whichever request started
\* their fetches: fewer fetches of each kind are in flight than load requests were
\* made, none before the first refresh.
OneOfEachSinceRefresh ==
    ~m.loading =>
        /\ Cardinality(pendingRepos) <= loads
        /\ Cardinality(pendingEvents) <= loads
        /\ loads = 0 => (pendingRepos = {} /\ pendingEvents = {})

\* C26 witness: loading is off while both fetches of the refresh are in flight
LoadedWithRefreshInFlight ==
    /\ ~m.loading
    /\ loads = 1
    /\ pendingRepos = {1}
    /\ pendingEvents = {1}

----------------------------------------------------------------------------
(* Properties of the clone, copy and open actions *)

\* C28: a clone, copy or open command is started only in the repository list view,
\* outside search mode, with a non-empty working set and a repository item selected;
\* starting it changes no field of the dashboard; the command delivers one
\* NotificationMsg and is then over, and isSuccess is false exactly when the clipboard
\* or browser operation failed.
ActionsGuardedAndNotifyOnce ==
    /\ [][Len(pendingActions') > Len(pendingActions) =>
              /\ m.currentView = "repoListView"
              /\ ~m.searchMode
              /\ Len(m.publicRepos) > 0
              /\ m.list.items # <<>>
              /\ m.list.items[1].kind = "repoItem"
              /\ m' = m
              /\ \E kind \in ActionKinds :
                     pendingActions' = Append(pendingActions,
                                              [kind |-> kind, repo |-> m.list.items[1].repo])]_vars
    /\ [][pendingActions' # pendingActions /\ Len(pendingActions') <= Len(pendingActions) =>
              /\ Len(pendingActions') = Len(pendingActions) - 1
              /\ \E i \in 1..Len(pendingActions), failed \in BOOLEAN :
                     /\ m'.notification =
                            actionMsg(pendingActions[i].kind, pendingActions[i].repo, failed).message
                     /\ m'.notifSuccess = ~failed
                     /\ \A j \in 1..Len(pendingActions') :
                            pendingActions'[j] = pendingActions[IF j < i THEN j ELSE j + 1]]_vars
    /\ [](\A kind \in ActionKinds, repo \in {RepoA, RepoB}, failed \in BOOLEAN :
              actionMsg(kind, repo, failed).isSuccess = ~failed)

\* C28 witness: with the activity loaded after the repositories, the user came back to
\* the repository list, started a copy on the first repository and its failure was
\* notified
FailedActionNotified ==
    /\ m.currentView = "repoListView"
    /\ m.eventsLoaded
    /\ m.list.items # <<>>
    /\ m.list.items[1].kind = "repoItem"
    /\ m.notification = <<"Copy Error: ", "exit status 1">>
    /\ ~m.notifSuccess
    /\ pendingActions = <<>>

----------------------------------------------------------------------------
(* Properties of the search mode *)

\* C29: search mode is on in the repository list view only: it is entered from that
\* view only, and the view does not change while it is on.
SearchOnlyInRepoList ==
    /\ [](m.searchMode => m.currentView = "repoListView")
    /\ [][(~m.searchMode /\ m'.searchMode) => m.currentView = "repoListView"]_vars
    /\ [][(m.searchMode /\ m'.searchMode) => m'.currentView = m.currentView]_vars

\* C29 witness: the user went round the four views, with the help opened on the way,
\* entered search mode in the repository list and typed a letter
SearchingAfterViewRound ==
    /\ m.searchMode
    /\ m.currentView = "repoListView"
    /\ m.helpShowAll
    /\ m.search = <<"A">>
    /\ Len(m.publicRepos) = 2

\* C30: esc or ctrl+c in search mode leaves search mode, empties the query and
\* rebuilds the list from the whole working repository set, whatever the list held.
CancelRestoresFullList ==
    [][SearchCancel =>
          /\ ~m'.searchMode
          /\ m'.search = <<>>
          /\ m'.publicRepos = m.publicRepos
          /\ m'.list.items = repoItems(m.publicRepos)
          /\ m'.list.title = <<"Public Repositories", Len(m.publicRepos)>>]_vars

\* C30 witness: the query "r" was submitted over two repositories and kept none, and
\* search mode was entered again: the state in which cancelling brings the two back
CancelOverEmptyFilter ==
    /\ m.searchMode
    /\ m.search = <<"r">>
    /\ Len(m.publicRepos) = 2
    /\ m.list.items = <<>>
    /\ m.list.title = <<"Repositories matching", <<"r">>, 0>>
    /\ ENABLED SearchCancel

----------------------------------------------------------------------------
(* Frame properties of the completions and of the refresh *)

\* C31: a failed fetch completion keeps the data loaded before: a repositories failure
\* changes at most reposLoaded, notification, notifSuccess, loading and ready, so the
\* working set, the item list and the table rows stay; an events failure changes at
\* most eventsLoaded and the same four fields, so events, stats and the item list stay.
FailureKeepsData ==
    /\ [][ReposFailure =>
              /\ m' = [m EXCEPT !.reposLoaded = TRUE,
                                !.notification = m'.notification,
                                !.notifSuccess = FALSE,
                                !.loading = m'.loading,
                                !.ready = m'.ready]
              /\ m'.publicRepos = m.publicRepos
              /\ m'.list = m.list
              /\ m'.table.rows = m.table.rows]_vars
    /\ [][EventsFailure =>
              /\ m' = [m EXCEPT !.eventsLoaded = TRUE,
                                !.notification = m'.notification,
                                !.notifSuccess = FALSE,
                                !.loading = m'.loading,
                                !.ready = m'.ready]
              /\ m'.events = m.events
              /\ m'.stats = m.stats
              /\ m'.list = m.list]_vars

\* C31 witness: after a refresh both fetches of the refresh failed, the second one the
\* repositories fetch, and the two repositories and the event loaded before are still
\* there
DataKeptAfterFailures ==
    /\ loads = 1
    /\ pendingRepos = {}
    /\ pendingEvents = {}
    /\ m.notification = <<"Error loading repositories: ", "http error 500">>
    /\ Len(m.publicRepos) = 2
    /\ Len(m.table.rows) = 2
    /\ m.events = <<EvPush>>
    /\ m.stats.PushEvents = 1

----------------------------------------------------------------------------
(* Properties of the repositories table *)

\* the rows updateRepoTable makes of a repository list
tableRows(repos) == [i \in 1..Len(repos) |-> tableRow(repos[i])]

\* a WindowSizeMsg with this height is handled in the step
resizedTo(height) == \E width \in WindowWidths : WindowSize(width, height)

----------------------------------------------------------------------------
(* Properties of the statistics view *)

\* C33: whenever the statistics view is active, the text block it shows is the
\* rendering of the current stats, events and working repository set, a completion
\* handled while the view is active included.
StatsViewIsCurrent ==
    m.currentView = "statsView" => m.viewport = renderDetailedStats(m)

----------------------------------------------------------------------------
(* Properties of list rebuilds *)

\* a repositories completion that carries a repository list
ReposSuccess ==
    \E g \in pendingRepos, result \in FetchReposResults :
        result.err = Nil /\ ReposLoaded(g, result)

\* C34: the filter of a submitted query does not outlive a rebuild of the list: the
\* tab step that enters the repository list view and every successful repositories
\* completion leave the list holding one item per repository of the whole working
\* set, under the unfiltered title, whatever query was submitted before.
RebuildDiscardsFilter ==
    /\ [][(KeyTab /\ m'.currentView = "repoListView") =>
              m'.list = [items |-> repoItems(m.publicRepos),
                         title |-> <<"Public Repositories", Len(m.publicRepos)>>]]_vars
    /\ [][(pendingRepos' # pendingRepos /\ ReposSuccess) =>
              m'.list = [items |-> repoItems(m'.publicRepos),
                         title |-> <<"Public Repositories", Len(m'.publicRepos)>>]]_vars

\* C34 witness: the query "r" was submitted and emptied the list, the user went round
\* the views: back in the repository list both repositories are listed while the
\* search input still holds the query
FilterGoneAfterViewRound ==
    /\ ~m.searchMode
    /\ m.search = <<"r">>
    /\ loads = 0
    /\ m.currentView = "repoListView"
    /\ Len(m.publicRepos) = 2
    /\ m.list.items = repoItems(m.publicRepos)

----------------------------------------------------------------------------
(* Properties of the activity list *)

\* the items updateActivityList makes of an event list
activityItems(events) == [k \in 1..Len(events) |-> activityItem(events[k])]

----------------------------------------------------------------------------
(* Frame of the refresh *)

\* C36: the refresh step sets loading, clears reposLoaded and eventsLoaded and shows
\* the success-flagged refreshing notification; it leaves the active view, the
\* search mode and query, the working repository set, the events, the stats, the
\* item list, the table and every other field as they were.
RefreshFrame ==
    [][KeyRefresh =>
          /\ m'.loading /\ ~m'.reposLoaded /\ ~m'.eventsLoaded
          /\ m'.notification = <<"Refreshing data...">> /\ m'.notifSuccess
          /\ m'.currentView = m.currentView
          /\ m'.searchMode = m.searchMode /\ m'.search = m.search
          /\ m'.publicRepos = m.publicRepos
          /\ m'.events = m.events /\ m'.stats = m.stats
          /\ m'.list = m.list
          /\ m'.table = m.table
          /\ \A f \in DOMAIN m \ {"loading", "reposLoaded", "eventsLoaded",
                                   "notification", "notifSuccess"} : m'[f] = m[f]]_vars

\* C36 witness: the refresh was asked for in the table view, over two loaded
\* repositories and a list that the submitted query "r" had emptied: both are still
\* there while the fetches of the refresh are in flight
RefreshedOverFilteredList ==
    /\ loads = 1
    /\ pendingRepos = {1}
    /\ m.loading
    /\ m.notification = <<"Refreshing data...">>
    /\ m.currentView = "repoTableView"
    /\ m.search = <<"r">>
    /\ Len(m.publicRepos) = 2
    /\ Len(m.table.rows) = 2
    /\ m.list.title = <<"Repositories matching", <<"r">>, 0>>

----------------------------------------------------------------------------
(* fetchPublicRepos run page by page against every API of at most MaxPages pages *)

\* pages of perPage repositories: every second one private, and all public
FullMixedPage == [k \in 1..PerPage |-> IF k % 2 = 0 THEN RepoP ELSE RepoA]
FullPublicPage == [k \in 1..PerPage |-> RepoB]

\* what the API answers to one page request
PageAnswers ==
    {pageOk(FullMixedPage), pageOk(FullPublicPage), pageOk(<<RepoB, RepoP>>), pageOk(<<>>)}
    \cup {pageFailed(e) : e \in FetchErrors}

\* the API holds at most MaxPages pages and answers an empty page past them
MaxPages == 3
PagedApis == SeqUpTo(PageAnswers, MaxPages)

InitFetch ==
    /\ idleDashboard
    /\ pc = "fetchPublicRepos"
    /\ arg \in PagedApis
    /\ ret = fetchStart

\* the loop of fetchPublicRepos runs one iteration
RequestPage ==
    /\ pc = "fetchPublicRepos"
    /\ ret' = fetchIteration(arg, ret)
    /\ pc' = IF ret'.result # <<>> THEN "returned" ELSE pc
    /\ UNCHANGED <<m, pendingRepos, pendingEvents, pendingActions, pendingTicks, loads,
                   quitting, arg>>

NextFetch == RequestPage

\* fetchPublicRepos is sequential code: it goes on until it returns
SpecFetch == InitFetch /\ [][NextFetch]_vars /\ WF_vars(RequestPage)

\* the number of the first page whose answer is an error or holds fewer than perPage
\* repositories, private ones counted
lastPage(api) ==
    LET ends(k) == \/ requestPage(api, k).err # Nil
                   \/ Len(requestPage(api, k).repos) < PerPage
    IN  CHOOSE k \in 1..(Len(api) + 1) : ends(k) /\ \A j \in 1..(k - 1) : ~ends(j)

RECURSIVE publicUpTo(_, _)
\* the public repositories of the pages 1 to k, page after page
publicUpTo(api, k) ==
    IF k = 0 THEN <<>>
    ELSE LET isPublic(repo) == ~repo.Private
         IN  publicUpTo(api, k - 1) \o SelectSeq(requestPage(api, k).repos, isPublic)

\* C37: fetchPublicRepos is all or nothing: when the answer to one of its page
\* requests is an error it returns that error and no repository, whatever the pages
\* before held; it returns a repository list, and no error, only when every page it
\* requested was answered without error.
AllOrNothing ==
    pc = "returned" =>
        LET r == ret.result[1]
            failed == {k \in 1..Len(ret.requests) :
                           requestPage(arg, ret.requests[k]).err # Nil}
        IN  /\ failed # {} =>
                   /\ r.repos = <<>>
                   /\ r.err = requestPage(arg, ret.requests[Len(ret.requests)]).err
                   /\ failed = {Len(ret.requests)}
            /\ failed = {} => r.err = Nil
            /\ r.repos # <<>> => failed = {}

\* C37 witness: the first page held a hundred public repositories and the second
\* request failed: the error is returned and the hundred are dropped
FailedAfterFullPage ==
    /\ pc = "returned"
    /\ arg = <<pageOk(FullPublicPage), pageFailed("http error 500")>>
    /\ Len(ret.allRepos) = 100
    /\ ret.result = <<[repos |-> <<>>, err |-> "http error 500"]>>

\* C38: fetchPublicRepos requests the pages 1, 2, 3, ... in order, one per iteration,
\* and goes no further than the first page that is empty or holds fewer than 100
\* repositories, private ones counted, or whose request fails; it returns, and when
\* no request failed the result is the public repositories of the requested pages,
\* page after page.
PagesInOrderUntilShort ==
    /\ [](/\ ret.requests = [k \in 1..Len(ret.requests) |-> k]
          /\ Len(ret.requests) <= lastPage(arg))
    /\ [][RequestPage => ret'.requests = Append(ret.requests, Len(ret.requests) + 1)]_vars
    /\ [](pc = "returned" =>
              /\ Len(ret.requests) = lastPage(arg)
              /\ ret.result[1].err = Nil =>
                     ret.result[1].repos = publicUpTo(arg, lastPage(arg)))
    /\ <>(pc = "returned")

\* C38 witness: a full page with fifty private repositories, a full page of public
\* ones and a page of two: three requests, and the 50 + 100 + 1 public repositories
ThreePagesFetched ==
    /\ pc = "returned"
    /\ arg = <<pageOk(FullMixedPage), pageOk(FullPublicPage), pageOk(<<RepoB, RepoP>>)>>
    /\ ret.requests = <<1, 2, 3>>
    /\ ret.result[1].err = Nil
    /\ Len(ret.result[1].repos) = 151

----------------------------------------------------------------------------
(* Last activity of the top repositories *)

\* the latest creation time among the events of the list that reference the name
latestOf(events, name) ==
    LET times == {events[k].CreatedAt : k \in referencing(events, name)}
    IN  CHOOSE t \in times : \A u \in times : u <= t

\* C39: every entry getTopRepos returns has LastActivity equal to the latest creation
\* time among the events of the list that reference the entry's repository name.
TopLastActivityIsLatest ==
    pc = "done" =>
        \A k \in 1..Len(ret) : ret[k].LastActivity = latestOf(arg.events, ret[k].Name)

\* C39 witness: the later of the two events of a repository came first in the list,
\* with an event of another repository between them
LatestEventCameFirst ==
    /\ pc = "done"
    /\ arg.events = <<GitHubEvent("PushEvent", "u/a", 2), GitHubEvent("PushEvent", "u/c", 1),
                      GitHubEvent("PushEvent", "u/a", 1)>>
    /\ ret[1].Name = "u/a"
    /\ ret[1].LastActivity = 2
    /\ ret[2].LastActivity = 1

----------------------------------------------------------------------------
(* printPublicRepos applied to every list of at most MaxPrinted repositories *)

\* the fields of a PublicRepo the sort and the numbered lines of the report read
ReportRepo(fullName, stars) == [FullName |-> fullName, Stars |-> stars]

\* repositories of a user, some with the same number of stars
ReportRepos ==
    {ReportRepo("u/a", 1), ReportRepo("u/b", 1), ReportRepo("u/c", 2),
     ReportRepo("u/d", 2), ReportRepo("u/e", 0)}

MaxPrinted == 4

\* mutant: neighbours with the same number of stars are exchanged as well
exchangeByStars_orEqual(repos, j) ==
    IF repos[j + 1].Stars <= repos[j + 2].Stars
    THEN [repos EXCEPT ![j + 1] = repos[j + 2], ![j + 2] = repos[j + 1]]
    ELSE repos

\* the body of the inner loop of the sort of printPublicRepos, j counting from 0
exchangeByStars(repos, j) ==
    IF repos[j + 1].Stars < repos[j + 2].Stars
    THEN [repos EXCEPT ![j + 1] = repos[j + 2], ![j + 2] = repos[j + 1]]
    ELSE repos

RECURSIVE sortByStarsInner(_, _, _)
\* for j := 0; j < len(repos)-i-1; j++
sortByStarsInner(repos, i, j) ==
    IF j < Len(repos) - i - 1
    THEN sortByStarsInner(exchangeByStars(repos, j), i, j + 1)
    ELSE repos

RECURSIVE sortByStarsOuter(_, _)
\* for i := 0; i < len(repos)-1; i++
sortByStarsOuter(repos, i) ==
    IF i < Len(repos) - 1
    THEN sortByStarsOuter(sortByStarsInner(repos, i, 0), i + 1)
    ELSE repos

RECURSIVE totalStars(_)
totalStars(repos) == IF repos = <<>> THEN 0 ELSE Head(repos).Stars + totalStars(Tail(repos))

\* printPublicRepos: what it prints, the numbered entries in the order of the lines
printPublicRepos(repos) ==
    IF Len(repos) = 0
    THEN [header |-> 0, entries |-> <<>>, summary |-> <<"No public repositories found.">>]
    ELSE LET sorted == sortByStarsOuter(repos, 0)
         IN  [header |-> Len(repos),
              entries |-> [i \in 1..Len(sorted) |->
                              [number |-> i, FullName |-> sorted[i].FullName,
                               Stars |-> sorted[i].Stars]],
              summary |-> <<Len(sorted), totalStars(sorted)>>]

InitPrint ==
    /\ idleDashboard
    /\ pc = "printPublicRepos"
    /\ arg \in SeqUpTo(ReportRepos, MaxPrinted)
    /\ ret = <<>>

CallPrintPublicRepos ==
    /\ pc = "printPublicRepos"
    /\ ret' = printPublicRepos(arg)
    /\ pc' = "done"
    /\ UNCHANGED <<m, pendingRepos, pendingEvents, pendingActions, pendingTicks, loads,
                   quitting, arg>>

NextPrint == CallPrintPublicRepos

SpecPrint == InitPrint /\ [][NextPrint]_vars

\* the repositories of the list with this number of stars, in the order of the list
withStars(repos, stars) ==
    LET has(repo) == repo.Stars = stars
    IN  SelectSeq(repos, has)

\* C40: printPublicRepos prints one numbered entry per repository of its input, in
\* non-increasing order of Stars; the entries of each number of stars are the
\* repositories of the input with that number of stars, in their input order, so
\* the report is a permutation of the input that keeps the order of equal stars.
ReportSortedByStars ==
    pc = "done" =>
        LET printed == [i \in 1..Len(ret.entries) |->
                            ReportRepo(ret.entries[i].FullName, ret.entries[i].Stars)]
        IN  /\ Len(printed) = Len(arg)
            /\ \A i \in 1..Len(printed) : ret.entries[i].number = i
            /\ \A i \in 1..(Len(printed) - 1) : printed[i].Stars >= printed[i + 1].Stars
            /\ \A stars \in {repo.Stars : repo \in ReportRepos} :
                   withStars(printed, stars) = withStars(arg, stars)

\* C40 witness: four repositories given in increasing order of stars, the two pairs
\* of equal stars each printed in their input order
ReportOfAscendingInput ==
    /\ pc = "done"
    /\ arg = <<ReportRepo("u/e", 0), ReportRepo("u/b", 1), ReportRepo("u/a", 1),
               ReportRepo("u/d", 2)>>
    /\ ret.entries[1].FullName = "u/d"
    /\ ret.entries[2].FullName = "u/b"
    /\ ret.entries[3].FullName = "u/a"
    /\ ret.entries[4].FullName = "u/e"

====
